---- MODULE Spec2Model ----
(***************************************************************************)
(* Brain-age benchmark: the benchmark driver script                        *)
(* (compute_benchmark_age_prediction.py) and the deep-learning data/model  *)
(* assembly (X_y_model.py), as state machines.                             *)
(*                                                                         *)
(*   Spec      the driver script: argument defaults, the validation loop   *)
(*             and the run loop over the tasks.                            *)
(*   SpecBench one call of run_benchmark_cv (load_benchmark_data, then     *)
(*             cross_validate, then the score table).                      *)
(*   SpecDeep  one call of get_X_y_model or create_model_and_data_split.   *)
(*                                                                         *)
(* Python lists are sequences (1-based here, 0-based in the source; the    *)
(* index arithmetic says so where it matters).  Python None is the value   *)
(* None below.  Floats (scores, times) are integers.                       *)
(***************************************************************************)
EXTENDS Integers, Sequences, FiniteSets, TLC

VARIABLES
    \* ---- the driver script ----
    argDataset,     \* parsed.dataset: None or a non-empty list (nargs='+')
    argBenchmark,   \* parsed.benchmark: None or a non-empty list
    datasets,       \* the script's `datasets`
    benchmarks,     \* the script's `benchmarks`
    tasks,          \* the script's `tasks`
    pc,             \* position of the script
    vi,             \* index of the validation loop (l.48)
    ti,             \* index of the run loop (l.230)
    started,        \* the tasks whose run_benchmark_cv call has begun, in order
    cvDone,         \* the tasks whose run_benchmark_cv call has returned, in order
    written,        \* the to_csv calls that completed: [path, task], in order
    disk,           \* the paths present under ./results
    error,          \* the exception that ended the script, or None
    \* ---- one call of run_benchmark_cv ----
    bDataset, bBenchmark, bCondition,  \* the arguments
    fs,             \* the files the call reads: participants, log, features
    bpc,            \* position inside run_benchmark_cv
    loaded,         \* what load_benchmark_data returned or raised
    scores,         \* the dict cross_validate returned
    results,        \* the DataFrame run_benchmark_cv returns
    bError,         \* the exception that ended the call, or None
    \* ---- one call into X_y_model.py ----
    entry,          \* the function called from outside
    fnames,         \* the epochs files: a list of [trials, chans, times]
    age,            \* the ages argument
    model_name, cv, fold,  \* the other arguments
    windows_ds,     \* the windows dataset: a list of examples
    n_channels,     \* the local/argument named n_channels
    window_size,    \* the local/argument named window_size
    net,            \* the network create_model built
    fold_i, train_is, valid_is,  \* the locals of the split loop (l.105)
    dpc,            \* position inside X_y_model.py
    ret,            \* the value returned: train_set, y (None), and of clf its module and valid_set
    dError          \* the exception that ended the call, or None

scriptVars == <<argDataset, argBenchmark, datasets, benchmarks, tasks, pc, vi, ti, started, cvDone, written, disk, error>>
benchVars == <<bDataset, bBenchmark, bCondition, fs, bpc, loaded, scores, results, bError>>
deepVars == <<entry, fnames, age, model_name, cv, fold, windows_ds, n_channels, window_size, net, fold_i, train_is, valid_is, dpc, ret, dError>>
vars == <<scriptVars, benchVars, deepVars>>

\* Python's None, where a string or a number may stand; an absent list is NoList
None == "None"

\* parsed.dataset / parsed.benchmark when the option is absent (nargs='+' never
\* yields an empty list, so the empty sequence is free to stand for None)
NoList == <<>>

Range(s) == {s[i] : i \in DOMAIN s}

\* a column of a table (a list of rows): df.name
Column(df, name) == [i \in DOMAIN df |-> df[i][name]]

(***************************************************************************)
(* Bounds                                                                  *)
(***************************************************************************)
\* longest -d / -b argument list tried
MaxArgs == 2

(***************************************************************************)
(* compute_benchmark_age_prediction.py: module constants                   *)
(***************************************************************************)
DATASETS == <<"chbp", "lemon", "tuab", "camcan">>

BENCHMARKS == <<"dummy", "filterbank-riemann", "filterbank-source", "handcrafted">>

\* the names tried on the command line and as function arguments: the known
\* ones, plus the two the load_benchmark_data docstring names and the lists
\* do not hold ('tuh', 'deep')
DatasetNames == Range(DATASETS) \cup {"tuh"}

BenchmarkNames == Range(BENCHMARKS) \cup {"deep"}

config_map == [d \in Range(DATASETS) |-> CASE d = "chbp" -> "config_chbp_eeg" [] d = "lemon" -> "config_lemon_eeg" [] d = "tuab" -> "config_tuab" [] d = "camcan" -> "config_camcan_meg"]

frequency_bands == <<"low", "delta", "theta", "alpha", "beta_low", "beta_mid", "beta_high">>

\* bench_config, a dict of dicts: the keys it holds, and each entry
BenchConfigKeys == {"filterbank-riemann", "filterbank-source", "handcrafted"}

bench_config(b) ==
    CASE b = "filterbank-riemann" -> [frequency_bands |-> frequency_bands, feature_map |-> "fb_covs"]
      [] b = "filterbank-source" -> [feature_map |-> "source_power"]
      [] b = "handcrafted" -> [feature_map |-> "handcrafted"]

(***************************************************************************)
(* The driver script                                                       *)
(***************************************************************************)
\* argparse with nargs='+': the option is absent (None) or holds >= 1 names
ArgLists(S) == {NoList} \cup UNION {[1..n -> S] : n \in 1..MaxArgs}

\* tasks = [(ds, bs) for ds in datasets for bs in benchmarks]
TasksBenchmarkOuter(ds, bs) == [i \in 1..(Len(ds) * Len(bs)) |-> <<ds[((i - 1) % Len(ds)) + 1], bs[((i - 1) \div Len(ds)) + 1]>>]

Tasks(ds, bs) == [i \in 1..(Len(ds) * Len(bs)) |-> <<ds[((i - 1) \div Len(bs)) + 1], bs[((i - 1) % Len(bs)) + 1]>>]

\* the body of the validation loop for one task: the exception it raises
TaskErrorDatasetOnly(task) == IF task[1] \notin Range(DATASETS) THEN "ValueError" ELSE None

TaskError(task) ==
    IF task[1] \notin Range(DATASETS) THEN "ValueError"
    ELSE IF task[2] \notin Range(BENCHMARKS) THEN "ValueError"
    ELSE None

\* f"./results/benchmark-{benchmark}_dataset-{dataset}.csv"
CsvPath(dataset, benchmark) == <<"./results/benchmark-", benchmark, "_dataset-", dataset, ".csv">>

\* the keys load_benchmark_data reads from bench_config[benchmark], in order
ConfigLookups(benchmark) ==
    (IF benchmark # "dummy" THEN <<"feature_map">> ELSE <<>>)
    \o (IF benchmark \in {"filterbank-riemann", "filterbank-source"} THEN <<"frequency_bands">> ELSE <<>>)

\* the key of the KeyError those lookups end in, or None: first
\* bench_config[benchmark], then each key of ConfigLookups
ConfigKeyError(benchmark) ==
    IF benchmark = "dummy" THEN None
    ELSE IF benchmark \notin BenchConfigKeys THEN benchmark
    ELSE LET missing == SelectSeq(ConfigLookups(benchmark), LAMBDA key : key \notin DOMAIN bench_config(benchmark))
         IN IF missing = <<>> THEN None ELSE missing[1]

\* the model each branch of load_benchmark_data leaves in `model`
ModelOf(benchmark) ==
    CASE benchmark = "filterbank-riemann" -> "Pipeline(filter_bank_transformer, StandardScaler, RidgeCV)"
      [] benchmark = "handcrafted" -> "Pipeline(FunctionTransformer, SimpleImputer, GridSearchCV(RandomForestRegressor))"
      [] benchmark = "dummy" -> "DummyRegressor"
      [] OTHER -> None

\* an exception at the top level of the script ends it: the run loop has no
\* try/except
OnTaskErrorSkip(i) == [pc |-> "run", ti |-> i + 1]

OnTaskError(i) == [pc |-> "raised", ti |-> i]

ScriptIdle ==
    /\ argDataset = NoList /\ argBenchmark = NoList /\ datasets = NoList /\ benchmarks = NoList
    /\ tasks = <<>> /\ pc = "idle" /\ vi = 0 /\ ti = 0
    /\ started = <<>> /\ cvDone = <<>> /\ written = <<>> /\ disk = {} /\ error = None

ScriptInit ==
    /\ argDataset \in ArgLists(DatasetNames)
    /\ argBenchmark \in ArgLists(BenchmarkNames)
    /\ datasets = argDataset
    /\ benchmarks = argBenchmark
    /\ tasks = <<>>
    /\ pc = "defaults"
    /\ vi = 0 /\ ti = 0
    /\ started = <<>> /\ cvDone = <<>> /\ written = <<>> /\ disk = {}
    /\ error = None

\* l.43-47
Defaults ==
    /\ pc = "defaults"
    /\ LET ds == IF datasets = NoList THEN DATASETS ELSE datasets
           bs == IF benchmarks = NoList THEN BENCHMARKS ELSE benchmarks
       IN /\ datasets' = ds
          /\ benchmarks' = bs
          /\ tasks' = Tasks(ds, bs)
    /\ pc' = "validate"
    /\ vi' = 1
    /\ UNCHANGED <<argDataset, argBenchmark, ti, started, cvDone, written, disk, error>>
    /\ UNCHANGED <<benchVars, deepVars>>

\* l.48-52: one iteration of the validation loop
Validate ==
    /\ pc = "validate"
    /\ vi <= Len(tasks)
    /\ IF TaskError(tasks[vi]) # None
       THEN /\ error' = TaskError(tasks[vi])
            /\ pc' = "raised"
            /\ vi' = vi
       ELSE /\ vi' = vi + 1
            /\ UNCHANGED <<pc, error>>
    /\ UNCHANGED <<argDataset, argBenchmark, datasets, benchmarks, tasks, ti, started, cvDone, written, disk>>
    /\ UNCHANGED <<benchVars, deepVars>>

\* l.53-54: the loop is over, the script announces the run
Announce ==
    /\ pc = "validate"
    /\ vi > Len(tasks)
    /\ pc' = "run"
    /\ ti' = 1
    /\ UNCHANGED <<argDataset, argBenchmark, datasets, benchmarks, tasks, vi, started, cvDone, written, disk, error>>
    /\ UNCHANGED <<benchVars, deepVars>>

\* l.230-232: the next task enters run_benchmark_cv
StartTask ==
    /\ pc = "run"
    /\ ti <= Len(tasks)
    /\ started' = Append(started, tasks[ti])
    /\ pc' = "load"
    /\ UNCHANGED <<argDataset, argBenchmark, datasets, benchmarks, tasks, vi, ti, cvDone, written, disk, error>>
    /\ UNCHANGED <<benchVars, deepVars>>

\* l.211-212: load_benchmark_data returns
LoadReturns ==
    /\ pc = "load"
    /\ ConfigKeyError(tasks[ti][2]) = None
    /\ pc' = "cv"
    /\ UNCHANGED <<argDataset, argBenchmark, datasets, benchmarks, tasks, vi, ti, started, cvDone, written, disk, error>>
    /\ UNCHANGED <<benchVars, deepVars>>

\* l.211-212: load_benchmark_data raises: the KeyError of a configuration
\* lookup, or the error of a file that is missing or malformed
LoadRaises ==
    /\ pc = "load"
    /\ \E e \in (IF ConfigKeyError(tasks[ti][2]) # None THEN {"KeyError"} ELSE {"FileNotFoundError", "KeyError"}) :
          error' = e
    /\ pc' = OnTaskError(ti).pc
    /\ ti' = OnTaskError(ti).ti
    /\ UNCHANGED <<argDataset, argBenchmark, datasets, benchmarks, tasks, vi, started, cvDone, written, disk>>
    /\ UNCHANGED <<benchVars, deepVars>>

\* l.213-226: cross_validate and the table; run_benchmark_cv returns
CvReturns ==
    /\ pc = "cv"
    /\ ModelOf(tasks[ti][2]) # None
    /\ cvDone' = Append(cvDone, tasks[ti])
    /\ pc' = "write"
    /\ UNCHANGED <<argDataset, argBenchmark, datasets, benchmarks, tasks, vi, ti, started, written, disk, error>>
    /\ UNCHANGED <<benchVars, deepVars>>

\* l.216: cross_validate raises (no estimator, fewer samples than folds, ...)
CvRaises ==
    /\ pc = "cv"
    /\ \E e \in (IF ModelOf(tasks[ti][2]) = None THEN {"TypeError"} ELSE {"ValueError"}) :
          error' = e
    /\ pc' = OnTaskError(ti).pc
    /\ ti' = OnTaskError(ti).ti
    /\ UNCHANGED <<argDataset, argBenchmark, datasets, benchmarks, tasks, vi, started, cvDone, written, disk>>
    /\ UNCHANGED <<benchVars, deepVars>>

\* l.233-234: to_csv completes, the loop moves on
WriteCsv ==
    /\ pc = "write"
    /\ LET path == CsvPath(tasks[ti][1], tasks[ti][2])
       IN /\ written' = Append(written, [path |-> path, task |-> tasks[ti]])
          /\ disk' = disk \cup {path}
    /\ ti' = ti + 1
    /\ pc' = "run"
    /\ UNCHANGED <<argDataset, argBenchmark, datasets, benchmarks, tasks, vi, started, cvDone, error>>
    /\ UNCHANGED <<benchVars, deepVars>>

\* l.233-234: to_csv raises (no ./results directory, ...)
WriteRaises ==
    /\ pc = "write"
    /\ error' = "OSError"
    /\ pc' = OnTaskError(ti).pc
    /\ ti' = OnTaskError(ti).ti
    /\ UNCHANGED <<argDataset, argBenchmark, datasets, benchmarks, tasks, vi, started, cvDone, written, disk>>
    /\ UNCHANGED <<benchVars, deepVars>>

\* the run loop is over: the script ends
Finish ==
    /\ pc = "run"
    /\ ti > Len(tasks)
    /\ pc' = "done"
    /\ UNCHANGED <<argDataset, argBenchmark, datasets, benchmarks, tasks, vi, ti, started, cvDone, written, disk, error>>
    /\ UNCHANGED <<benchVars, deepVars>>

(***************************************************************************)
(* run_benchmark_cv and load_benchmark_data                                *)
(***************************************************************************)
\* number of subject ids of the small file sets
MaxSubjects == 2

\* the large file sets hold NSplits .. NSplits + MaxExtra participants
MaxExtra == 0

\* KFold(n_splits=10, ...)
NSplits == 10

SubjectIds == <<"sub-01", "sub-02", "sub-03", "sub-04", "sub-05", "sub-06", "sub-07", "sub-08", "sub-09", "sub-10", "sub-11", "sub-12", "sub-13">>

\* the age participants.tsv gives the i-th subject id
AgeOf(i) == 18 + (7 * i)

ParticipantRow(i) == [participant_id |-> SubjectIds[i], age |-> AgeOf(i)]

\* sequences over S without repetition, of every length
InjectiveSeqs(S) == {q \in UNION {[1..n -> S] : n \in 0..Cardinality(S)} : \A i, j \in DOMAIN q : i # j => q[i] # q[j]}

LogRows(ids) == [subject : {SubjectIds[i] : i \in ids}, ok : {"OK", "error"}]

\* small file sets: participants.tsv lists some of the subjects in some order,
\* the processing log has up to MaxSubjects rows, the features file holds all
\* subjects or all but the first
SmallFiles ==
    [participants : {[i \in DOMAIN q |-> ParticipantRow(q[i])] : q \in InjectiveSeqs(1..MaxSubjects)},
     log : UNION {[1..n -> LogRows(1..MaxSubjects)] : n \in 0..MaxSubjects},
     features : {{SubjectIds[i] : i \in 1..MaxSubjects}, {SubjectIds[i] : i \in 2..MaxSubjects}}]

\* large file sets, with enough subjects for the folds: participants.tsv lists
\* subjects 1..n, the log has a row for each, all OK or all but the first OK
LargeFiles ==
    {[participants |-> [i \in 1..n |-> ParticipantRow(i)],
      log |-> [i \in 1..n |-> [subject |-> SubjectIds[i], ok |-> IF i = 1 /\ bad THEN "error" ELSE "OK"]],
      features |-> {SubjectIds[i] : i \in 1..n}] : n \in NSplits..(NSplits + MaxExtra), bad \in BOOLEAN}

\* l.120-126
Condition_(dataset, condition) ==
    IF condition = None
    THEN (IF dataset \in {"chbp", "lemon"} THEN "pooled" ELSE "rest")
    ELSE condition

\* proc_log.query('ok == "OK"').subject
GoodSubjectsAllRows(log) == Column(log, "subject")

GoodSubjects(log) == Column(SelectSeq(log, LAMBDA row : row.ok = "OK"), "subject")

\* df.loc[labels] on a frame indexed by participant_id: the rows of the labels,
\* in the order of the labels (every label is in the index, see Missing)
Loc(df, labels) == [j \in DOMAIN labels |-> df[CHOOSE i \in DOMAIN df : df[i].participant_id = labels[j]]]

\* the first of the labels that `have` lacks, or None
Missing(labels, have) ==
    LET lacking == SelectSeq(labels, LAMBDA s : s \notin have)
    IN IF lacking = <<>> THEN None ELSE lacking[1]

\* the outcome of a call: the exception raised (with the key of a KeyError), or
\* the triple returned, with the files that were read for it
Raised(exc, key) == [exc |-> exc, key |-> key, X |-> <<>>, y |-> <<>>, model |-> None, read |-> <<>>]

Returned(X, y, model, read) == [exc |-> None, key |-> None, X |-> X, y |-> y, model |-> model, read |-> read]

\* df_subjects.age.values
AgeValues(df) == Column(df, "age")

\* l.127, l.134-135, l.143-144, l.164-165, l.178-179: the files a call reads
ParticipantsFile == <<"bids_root", "participants.tsv">>

FeatureLog(benchmark, condition_) == <<"deriv_root", "feature_", bench_config(benchmark).feature_map, "_", condition_, "-log.csv">>

FeaturesFile(benchmark, condition_) ==
    IF benchmark = "handcrafted"
    THEN <<"deriv_root", "features_handcrafted_", condition_, ".h5">>
    ELSE <<"deriv_root", "features_", bench_config(benchmark).feature_map, "_", condition_, ".h5">>

\* l.145, l.166, l.180: one entry of X per row of df_subjects, the features of
\* that subject; l.199: np.zeros(shape=(len(y), 1))
FeatureRows(df, kind) == [i \in DOMAIN df |-> [subject |-> df[i].participant_id, feature |-> kind]]

ZeroRows(df) == [i \in DOMAIN df |-> [subject |-> None, feature |-> "zeros"]]

\* l.140-205: the branch of the benchmark, on the subjects table df
LoadBranch(dataset, benchmark, condition_, files, df) ==
    CASE benchmark = "filterbank-riemann" ->
           IF "frequency_bands" \notin DOMAIN bench_config(benchmark) THEN Raised("KeyError", "frequency_bands")
           ELSE IF Missing(Column(df, "participant_id"), files.features) # None
                THEN Raised("KeyError", Missing(Column(df, "participant_id"), files.features))
           ELSE IF df = <<>> THEN Raised("IndexError", None)
           ELSE Returned(FeatureRows(df, "covs"), AgeValues(df), ModelOf(benchmark),
                         <<ParticipantsFile, FeatureLog(benchmark, condition_), FeaturesFile(benchmark, condition_)>>)
      [] benchmark = "filterbank-source" ->
           IF "frequency_bands" \notin DOMAIN bench_config(benchmark) THEN Raised("KeyError", "frequency_bands")
           ELSE IF Missing(Column(df, "participant_id"), files.features) # None
                THEN Raised("KeyError", Missing(Column(df, "participant_id"), files.features))
           ELSE IF df = <<>> THEN Raised("IndexError", None)
           ELSE Returned(FeatureRows(df, "source_power"), AgeValues(df), ModelOf(benchmark),
                         <<ParticipantsFile, FeatureLog(benchmark, condition_), FeaturesFile(benchmark, condition_)>>)
      [] benchmark = "handcrafted" ->
           IF Missing(Column(df, "participant_id"), files.features) # None
           THEN Raised("KeyError", Missing(Column(df, "participant_id"), files.features))
           ELSE Returned(FeatureRows(df, "feats"), AgeValues(df), ModelOf(benchmark),
                         <<ParticipantsFile, FeatureLog(benchmark, condition_), FeaturesFile(benchmark, condition_)>>)
      [] benchmark = "dummy" ->
           Returned(ZeroRows(df), AgeValues(df), ModelOf(benchmark), <<ParticipantsFile>>)
      [] benchmark = "deep" -> Raised("NotImplementedError", None)
      [] OTHER -> Returned(<<>>, <<>>, None, <<ParticipantsFile>>)

\* l.109-205: load_benchmark_data(dataset, benchmark, condition) on the files
\* it reads; what it returns, or the exception it raises
LoadBenchmarkData(dataset, benchmark, condition, files) ==
    IF dataset \notin DOMAIN config_map THEN Raised("ValueError", None)
    ELSE IF benchmark = "dummy" THEN LoadBranch(dataset, benchmark, Condition_(dataset, condition), files, files.participants)
    ELSE IF benchmark \notin BenchConfigKeys THEN Raised("KeyError", benchmark)
    ELSE IF "feature_map" \notin DOMAIN bench_config(benchmark) THEN Raised("KeyError", "feature_map")
    ELSE LET good_subjects == GoodSubjects(files.log)
             have == {files.participants[i].participant_id : i \in DOMAIN files.participants}
         IN IF Missing(good_subjects, have) # None THEN Raised("KeyError", Missing(good_subjects, have))
            ELSE LoadBranch(dataset, benchmark, Condition_(dataset, condition), files, Loc(files.participants, good_subjects))

\* the scores of one fold, as cross_validate reports them
FoldScores ==
    {[test_neg_mean_absolute_error |-> 0, test_r2 |-> 1, fit_time |-> 2, score_time |-> 1],
     [test_neg_mean_absolute_error |-> -3, test_r2 |-> -2, fit_time |-> 5, score_time |-> 4]}

\* l.218-223: the DataFrame built from the scores dict
ResultsNoNegation(sc) ==
    [columns |-> <<"MAE", "r2", "fit_time", "score_time">>,
     MAE |-> sc.test_neg_mean_absolute_error,
     r2 |-> sc.test_r2,
     fit_time |-> sc.fit_time,
     score_time |-> sc.score_time]

Results(sc) ==
    [columns |-> <<"MAE", "r2", "fit_time", "score_time">>,
     MAE |-> [i \in DOMAIN sc.test_neg_mean_absolute_error |-> sc.test_neg_mean_absolute_error[i] * (-1)],
     r2 |-> sc.test_r2,
     fit_time |-> sc.fit_time,
     score_time |-> sc.score_time]

NoScores == [test_neg_mean_absolute_error |-> <<>>, test_r2 |-> <<>>, fit_time |-> <<>>, score_time |-> <<>>]

NoResults == [columns |-> <<>>, MAE |-> <<>>, r2 |-> <<>>, fit_time |-> <<>>, score_time |-> <<>>]

NoFiles == [participants |-> <<>>, log |-> <<>>, features |-> {}]

BenchIdle ==
    /\ bDataset = None /\ bBenchmark = None /\ bCondition = None
    /\ fs = NoFiles /\ bpc = "idle" /\ loaded = Raised(None, None)
    /\ scores = NoScores /\ results = NoResults /\ bError = None

BenchInit ==
    /\ bDataset \in DatasetNames
    /\ bBenchmark \in BenchmarkNames
    /\ bCondition = None
    /\ fs \in SmallFiles \cup LargeFiles
    /\ bpc = "load"
    /\ loaded = Raised(None, None)
    /\ scores = NoScores
    /\ results = NoResults
    /\ bError = None

\* l.211-212: the call of load_benchmark_data returns
Load ==
    /\ bpc = "load"
    /\ LoadBenchmarkData(bDataset, bBenchmark, bCondition, fs).exc = None
    /\ loaded' = LoadBenchmarkData(bDataset, bBenchmark, bCondition, fs)
    /\ bpc' = "cv"
    /\ UNCHANGED <<bDataset, bBenchmark, bCondition, fs, scores, results, bError>>
    /\ UNCHANGED <<scriptVars, deepVars>>

\* l.211-212: the call of load_benchmark_data raises
LoadFails ==
    /\ bpc = "load"
    /\ LoadBenchmarkData(bDataset, bBenchmark, bCondition, fs).exc # None
    /\ loaded' = LoadBenchmarkData(bDataset, bBenchmark, bCondition, fs)
    /\ bError' = LoadBenchmarkData(bDataset, bBenchmark, bCondition, fs).exc
    /\ bpc' = "raised"
    /\ UNCHANGED <<bDataset, bBenchmark, bCondition, fs, scores, results>>
    /\ UNCHANGED <<scriptVars, deepVars>>

\* l.213-217: cross_validate over the NSplits folds returns one score per fold
\* and metric
CrossValidate ==
    /\ bpc = "cv"
    /\ loaded.model # None
    /\ Len(loaded.X) >= NSplits
    /\ \E perFold \in [1..NSplits -> FoldScores] :
          scores' = [test_neg_mean_absolute_error |-> [i \in 1..NSplits |-> perFold[i].test_neg_mean_absolute_error],
                     test_r2 |-> [i \in 1..NSplits |-> perFold[i].test_r2],
                     fit_time |-> [i \in 1..NSplits |-> perFold[i].fit_time],
                     score_time |-> [i \in 1..NSplits |-> perFold[i].score_time]]
    /\ bpc' = "table"
    /\ UNCHANGED <<bDataset, bBenchmark, bCondition, fs, loaded, results, bError>>
    /\ UNCHANGED <<scriptVars, deepVars>>

\* l.216: cross_validate raises: no estimator, or fewer samples than folds
CrossValidateFails ==
    /\ bpc = "cv"
    /\ loaded.model = None \/ Len(loaded.X) < NSplits
    /\ bError' = (IF loaded.model = None THEN "TypeError" ELSE "ValueError")
    /\ bpc' = "raised"
    /\ UNCHANGED <<bDataset, bBenchmark, bCondition, fs, loaded, scores, results>>
    /\ UNCHANGED <<scriptVars, deepVars>>

\* l.218-226: the table is built and returned
MakeResults ==
    /\ bpc = "table"
    /\ results' = Results(scores)
    /\ bpc' = "returned"
    /\ UNCHANGED <<bDataset, bBenchmark, bCondition, fs, loaded, scores, bError>>
    /\ UNCHANGED <<scriptVars, deepVars>>

(***************************************************************************)
(* X_y_model.py                                                            *)
(***************************************************************************)
\* longest list of epochs files tried
MaxFiles == 2

\* the shapes an epochs file may have: (n_trials, n_channels, n_times)
FileShapes == [trials : {1, 2}, chans : {2, 3}, times : {2, 3}]

\* the ages argument: one age per position
AgeLists == {[i \in 1..n |-> 20 + (10 * i)] : n \in 0..MaxFiles}

ModelNames == {"shallow", "deep", "other"}

\* the cv argument: a KFold(n_splits, shuffle)
CvObjects == [n_splits : {2, 3}, shuffle : BOOLEAN]

FoldArguments == -1..3

\* sum of the trials of the first n files
RECURSIVE TrialsBefore(_, _)
TrialsBefore(files, n) == IF n = 0 THEN 0 ELSE TrialsBefore(files, n - 1) + files[n].trials

\* l.35-40: create_from_mne_epochs with window size = stride = trial length:
\* one single-window dataset per trial of every file, in file order, its
\* target the age written into the events of that file (l.20-21)
WindowsOf(files, ages) ==
    [e \in 1..TrialsBefore(files, Len(files)) |->
        LET f == CHOOSE i \in DOMAIN files : TrialsBefore(files, i - 1) < e /\ e <= TrialsBefore(files, i)
        IN [file |-> f, trial |-> e - TrialsBefore(files, f - 1), target |-> ages[f]]]

\* l.14-41: create_windows_ds: the exception it raises, or None
CreateWindowsDsError(files, ages) ==
    IF Len(files) # Len(ages) THEN "AssertionError"
    ELSE IF Cardinality({files[i].times : i \in DOMAIN files}) # 1 THEN "AssertionError"
    ELSE IF Cardinality({files[i].chans : i \in DOMAIN files}) # 1 THEN "AssertionError"
    ELSE None

\* l.41: return windows_ds, window_sizes[0], n_channels[0]
CreateWindowsDs(files, ages) == <<WindowsOf(files, ages), files[1].times, files[1].chans>>

\* l.141: windows_ds, n_channels, window_size = create_windows_ds(...): the
\* tuple is unpacked by position
Unpack(r) == [windows_ds |-> r[1], n_channels |-> r[2], window_size |-> r[3]]

\* l.44-85: create_model; lr and weight_decay in units of 1e-6
CreateModelError(name) == IF name \notin {"shallow", "deep"} THEN "AssertionError" ELSE None

CreateModel(name, size, chans) ==
    [arch |-> IF name = "shallow" THEN "ShallowFBCSPNet" ELSE "Deep4Net",
     in_chans |-> chans,
     n_classes |-> 1,
     input_window_samples |-> size,
     lr |-> IF name = "shallow" THEN 625 ELSE 10000,
     weight_decay |-> IF name = "shallow" THEN 0 ELSE 500]

\* the ascending list of the members of a set of integers
RECURSIVE Sorted(_)
Sorted(S) == IF S = {} THEN <<>> ELSE LET m == CHOOSE x \in S : \A y \in S : x <= y IN <<m>> \o Sorted(S \ {m})

\* sklearn KFold._iter_test_indices: the order of the indices (a shuffling
\* KFold permutes them; the reversal stands for its seeded permutation), and
\* the first n % n_splits folds hold one index more
KFoldOrder(c, n) == [j \in 1..n |-> IF c.shuffle THEN n - j ELSE j - 1]

KFoldSize(c, n, i) == (n \div c.n_splits) + (IF i < n % c.n_splits THEN 1 ELSE 0)

RECURSIVE KFoldStart(_, _, _)
KFoldStart(c, n, i) == IF i = 0 THEN 0 ELSE KFoldStart(c, n, i - 1) + KFoldSize(c, n, i - 1)

\* the test indices of fold i (0-based), as a set
KFoldTest(c, n, i) == {KFoldOrder(c, n)[j] : j \in (KFoldStart(c, n, i) + 1)..(KFoldStart(c, n, i) + KFoldSize(c, n, i))}

\* cv.split(example_ids): the list of (train, test) index arrays, both ascending
KFoldSplit(c, n) == [i \in 1..c.n_splits |-> [train |-> Sorted((0..(n - 1)) \ KFoldTest(c, n, i - 1)), test |-> Sorted(KFoldTest(c, n, i - 1))]]

\* KFold.split raises when there are fewer samples than splits
KFoldSplitError(c, n) == IF c.n_splits > n THEN "ValueError" ELSE None

\* l.106: the loop leaves at the fold asked for
BreakAtNext(i, f) == i + 1 = f

BreakAtOrAfter(i, f) == i >= f

BreakAt(i, f) == i = f

\* windows_ds.split(by=ids)['0']: the datasets at the (0-based) ids, in order
SplitBy(ds, ids) == [j \in DOMAIN ids |-> ds[ids[j] + 1]]

\* l.134: return train_set, None, clf; of clf, the module and the predefined
\* validation split
Return(ds, model, train, valid) == [train_set |-> SplitBy(ds, train), y |-> None, valid_set |-> SplitBy(ds, valid), module |-> model]

NoNet == [arch |-> None, in_chans |-> 0, n_classes |-> 0, input_window_samples |-> 0, lr |-> 0, weight_decay |-> 0]

NoRet == [train_set |-> <<>>, y |-> None, valid_set |-> <<>>, module |-> NoNet]

NoCv == [n_splits |-> 0, shuffle |-> FALSE]

DeepIdle ==
    /\ entry = None /\ fnames = <<>> /\ age = <<>> /\ model_name = None /\ cv = NoCv /\ fold = 0
    /\ windows_ds = <<>> /\ n_channels = 0 /\ window_size = 0 /\ net = NoNet
    /\ fold_i = -1 /\ train_is = <<>> /\ valid_is = <<>> /\ dpc = "idle" /\ ret = NoRet /\ dError = None

\* a call of get_X_y_model(fnames, model_name, age, cv, fold), or a call of
\* create_model_and_data_split on a windows dataset made by create_windows_ds
DeepInit ==
    /\ fnames \in UNION {[1..n -> FileShapes] : n \in 0..MaxFiles}
    /\ age \in AgeLists
    /\ model_name \in ModelNames
    /\ cv \in CvObjects
    /\ fold \in FoldArguments
    /\ \/ /\ entry = "get_X_y_model"
          /\ windows_ds = <<>> /\ n_channels = 0 /\ window_size = 0
          /\ dpc = "get_X_y_model"
       \/ /\ entry = "create_model_and_data_split"
          /\ fnames # <<>>
          /\ CreateWindowsDsError(fnames, age) = None
          /\ windows_ds = CreateWindowsDs(fnames, age)[1]
          /\ n_channels = CreateWindowsDs(fnames, age)[3]
          /\ window_size = CreateWindowsDs(fnames, age)[2]
          /\ dpc = "create_model"
    /\ net = NoNet
    /\ fold_i = -1 /\ train_is = <<>> /\ valid_is = <<>>
    /\ ret = NoRet
    /\ dError = None

\* l.141-144: create_windows_ds raises
WindowsFail ==
    /\ dpc = "get_X_y_model"
    /\ CreateWindowsDsError(fnames, age) # None
    /\ dError' = CreateWindowsDsError(fnames, age)
    /\ dpc' = "raised"
    /\ UNCHANGED <<entry, fnames, age, model_name, cv, fold, windows_ds, n_channels, window_size, net, fold_i, train_is, valid_is, ret>>
    /\ UNCHANGED <<scriptVars, benchVars>>

\* l.141-155: create_windows_ds returns, its tuple is unpacked, and
\* create_model_and_data_split is entered with the locals as keyword arguments
GetWindows ==
    /\ dpc = "get_X_y_model"
    /\ CreateWindowsDsError(fnames, age) = None
    /\ LET got == Unpack(CreateWindowsDs(fnames, age))
       IN /\ windows_ds' = got.windows_ds
          /\ n_channels' = got.n_channels
          /\ window_size' = got.window_size
    /\ dpc' = "create_model"
    /\ UNCHANGED <<entry, fnames, age, model_name, cv, fold, net, fold_i, train_is, valid_is, ret, dError>>
    /\ UNCHANGED <<scriptVars, benchVars>>

\* l.92-97: create_model returns the network
BuildModel ==
    /\ dpc = "create_model"
    /\ CreateModelError(model_name) = None
    /\ net' = CreateModel(model_name, window_size, n_channels)
    /\ dpc' = "split"
    /\ UNCHANGED <<entry, fnames, age, model_name, cv, fold, windows_ds, n_channels, window_size, fold_i, train_is, valid_is, ret, dError>>
    /\ UNCHANGED <<scriptVars, benchVars>>

\* l.63: the assertion on the model name fails
BuildModelFails ==
    /\ dpc = "create_model"
    /\ CreateModelError(model_name) # None
    /\ dError' = CreateModelError(model_name)
    /\ dpc' = "raised"
    /\ UNCHANGED <<entry, fnames, age, model_name, cv, fold, windows_ds, n_channels, window_size, net, fold_i, train_is, valid_is, ret>>
    /\ UNCHANGED <<scriptVars, benchVars>>

\* l.105: cv.split raises on its first step
SplitFails ==
    /\ dpc = "split"
    /\ KFoldSplitError(cv, Len(windows_ds)) # None
    /\ dError' = KFoldSplitError(cv, Len(windows_ds))
    /\ dpc' = "raised"
    /\ UNCHANGED <<entry, fnames, age, model_name, cv, fold, windows_ds, n_channels, window_size, net, fold_i, train_is, valid_is, ret>>
    /\ UNCHANGED <<scriptVars, benchVars>>

\* l.105-107: one iteration of the loop over cv.split: the loop variables take
\* the next split, and the loop leaves if this is the fold asked for
SplitStep ==
    /\ dpc = "split"
    /\ KFoldSplitError(cv, Len(windows_ds)) = None
    /\ fold_i + 1 < cv.n_splits
    /\ fold_i' = fold_i + 1
    /\ train_is' = KFoldSplit(cv, Len(windows_ds))[fold_i + 2].train
    /\ valid_is' = KFoldSplit(cv, Len(windows_ds))[fold_i + 2].test
    /\ dpc' = IF BreakAt(fold_i + 1, fold) THEN "build" ELSE "split"
    /\ UNCHANGED <<entry, fnames, age, model_name, cv, fold, windows_ds, n_channels, window_size, net, ret, dError>>
    /\ UNCHANGED <<scriptVars, benchVars>>

\* l.105: cv.split is exhausted without a break; the loop variables keep the
\* values of the last iteration
SplitExhausted ==
    /\ dpc = "split"
    /\ KFoldSplitError(cv, Len(windows_ds)) = None
    /\ fold_i + 1 >= cv.n_splits
    /\ dpc' = "build"
    /\ UNCHANGED <<entry, fnames, age, model_name, cv, fold, windows_ds, n_channels, window_size, net, fold_i, train_is, valid_is, ret, dError>>
    /\ UNCHANGED <<scriptVars, benchVars>>

\* l.109-134: the two sets are cut out, the regressor is built, and the
\* function returns
BuildAndReturn ==
    /\ dpc = "build"
    /\ ret' = Return(windows_ds, net, train_is, valid_is)
    /\ dpc' = "returned"
    /\ UNCHANGED <<entry, fnames, age, model_name, cv, fold, windows_ds, n_channels, window_size, net, fold_i, train_is, valid_is, dError>>
    /\ UNCHANGED <<scriptVars, benchVars>>

(***************************************************************************)
(* Specifications                                                          *)
(***************************************************************************)
Init == ScriptInit /\ BenchIdle /\ DeepIdle

Next == Defaults \/ Validate \/ Announce \/ StartTask \/ LoadReturns \/ LoadRaises \/ CvReturns \/ CvRaises \/ WriteCsv \/ WriteRaises \/ Finish

Spec == Init /\ [][Next]_vars

InitBench == ScriptIdle /\ BenchInit /\ DeepIdle

NextBench == Load \/ LoadFails \/ CrossValidate \/ CrossValidateFails \/ MakeResults

SpecBench == InitBench /\ [][NextBench]_vars

InitDeep == ScriptIdle /\ BenchIdle /\ DeepInit

NextDeep == WindowsFail \/ GetWindows \/ BuildModel \/ BuildModelFails \/ SplitFails \/ SplitStep \/ SplitExhausted \/ BuildAndReturn

SpecDeep == InitDeep /\ [][NextDeep]_vars

(***************************************************************************)
(* Properties of the driver script (Spec)                                  *)
(***************************************************************************)
BadName ==
    \/ \E i \in DOMAIN argDataset : argDataset[i] \notin {"chbp", "lemon", "tuab", "camcan"}
    \/ \E i \in DOMAIN argBenchmark : argBenchmark[i] \notin {"dummy", "filterbank-riemann", "filterbank-source", "handcrafted"}

ExpectedPath(task) == <<"./results/benchmark-", task[2], "_dataset-", task[1], ".csv">>

\* C1: when any name on the command line is not in DATASETS / BENCHMARKS, the
\* script never leaves the validation loop except by raising ValueError: no
\* task is started, no cross-validation is run and no CSV is written,
\* wherever the bad name stands in the lists.
C1_ValidationBeforeAnyWork ==
    BadName =>
        /\ pc \in {"defaults", "validate", "raised"}
        /\ started = <<>> /\ cvDone = <<>> /\ written = <<>> /\ disk = {}
        /\ (pc = "raised" => error = "ValueError")
        /\ (pc = "validate" => vi <= Len(tasks))

\* C1 witness: ValueError was raised for a bad name that is not in the first
\* task, after the tasks before it passed validation.
C1_Witness == BadName /\ pc = "raised" /\ error = "ValueError" /\ vi >= 3 /\ started = <<>>

\* C4: the tasks are the cross product of the requested lists, datasets outer
\* and benchmarks inner (all 4 x 4 pairs when neither option is given); every
\* table is written after its task's cross-validation returned, to
\* ./results/benchmark-{benchmark}_dataset-{dataset}.csv; and a run that ends
\* with every task succeeding has written exactly one table per task, in task
\* order.
C4_OneTablePerTaskInOrder ==
    /\ pc # "defaults" =>
          /\ Len(tasks) = Len(datasets) * Len(benchmarks)
          /\ \A i \in DOMAIN datasets : \A j \in DOMAIN benchmarks :
                tasks[((i - 1) * Len(benchmarks)) + j] = <<datasets[i], benchmarks[j]>>
          /\ (argDataset # <<>> => datasets = argDataset)
          /\ (argBenchmark # <<>> => benchmarks = argBenchmark)
          /\ (argDataset = <<>> => datasets = <<"chbp", "lemon", "tuab", "camcan">>)
          /\ (argBenchmark = <<>> => benchmarks = <<"dummy", "filterbank-riemann", "filterbank-source", "handcrafted">>)
          /\ (argDataset = <<>> /\ argBenchmark = <<>> => Len(tasks) = 16)
    /\ Len(written) <= Len(cvDone)
    /\ \A k \in DOMAIN written :
          /\ written[k].task = tasks[k]
          /\ cvDone[k] = tasks[k]
          /\ written[k].path = ExpectedPath(tasks[k])
    /\ disk = {ExpectedPath(tasks[k]) : k \in DOMAIN written}
    /\ (pc = "done" => Len(written) = Len(tasks) /\ error = None)

\* C4 witness: a run over 2 x 2 distinct names ended with all four tasks done.
C4_Witness ==
    /\ pc = "done" /\ Len(datasets) = 2 /\ Len(benchmarks) = 2
    /\ Len(tasks) = 4 /\ Len(written) = 4 /\ Cardinality(disk) = 4
    /\ datasets[1] # datasets[2] /\ benchmarks[1] # benchmarks[2]

\* C7: once a task raises, the script has stopped for good: the raising task
\* is the last one started, no CSV exists for it or for any later task, the
\* CSVs of the tasks before it are on disk as written, and the tasks started
\* are a prefix of the task list (none is started twice, none is skipped).
C7_NoRecoveryNoRetry ==
    /\ Len(started) <= Len(tasks)
    /\ \A k \in DOMAIN started : started[k] = tasks[k]
    /\ (error # None => pc = "raised")
    /\ (pc = "raised" => ~ENABLED Next)
    /\ (pc = "raised" /\ started # <<>> =>
          /\ Len(written) = Len(started) - 1
          /\ \A k \in 1..(Len(started) - 1) : written[k] = [path |-> ExpectedPath(tasks[k]), task |-> tasks[k]]
          /\ disk = {ExpectedPath(tasks[k]) : k \in 1..(Len(started) - 1)})
    /\ (pc \in {"load", "cv", "write"} => ti = Len(started) /\ Len(written) = ti - 1)
    /\ (pc \in {"run", "done"} => Len(started) = ti - 1 /\ Len(written) = ti - 1)

\* C7 witness: the third of four tasks raised after two tables were written.
C7_Witness ==
    /\ pc = "raised" /\ error # None /\ error # "ValueError"
    /\ Len(tasks) = 4 /\ Len(started) = 3 /\ Len(written) = 2 /\ Cardinality(disk) = 2

(***************************************************************************)
(* Properties of run_benchmark_cv and load_benchmark_data (SpecBench)      *)
(***************************************************************************)
\* the files hold what the call needs: every subject the log marks OK is in
\* participants.tsv and in the features file, and there is at least one
FilesComplete ==
    /\ \E i \in DOMAIN fs.log : fs.log[i].ok = "OK"
    /\ \A i \in DOMAIN fs.log : fs.log[i].ok = "OK" =>
          /\ fs.log[i].subject \in fs.features
          /\ \E j \in DOMAIN fs.participants : fs.participants[j].participant_id = fs.log[i].subject

LoadEnded == bpc \in {"cv", "table", "returned", "raised"}

\* C2: load_benchmark_data with benchmark 'deep' and a known dataset ends
\* with NotImplementedError and with nothing else.
C2_DeepEndsNotImplemented ==
    (LoadEnded /\ bBenchmark = "deep" /\ bDataset \in {"chbp", "lemon", "tuab", "camcan"}) =>
        loaded.exc = "NotImplementedError"

\* C3: for every known dataset and every benchmark of BENCHMARKS, on complete
\* files, load_benchmark_data reads only configuration keys that exist and
\* returns a triple whose model is built (not None).
C3_KnownPairsReturnAModel ==
    (LoadEnded /\ FilesComplete /\ bDataset \in {"chbp", "lemon", "tuab", "camcan"}
       /\ bBenchmark \in {"dummy", "filterbank-riemann", "filterbank-source", "handcrafted"}) =>
        /\ loaded.exc = None
        /\ loaded.model # None

\* C5: the table run_benchmark_cv returns has the columns MAE, r2, fit_time,
\* score_time, one row per fold (10); MAE is the negated
\* neg_mean_absolute_error of the fold, hence >= 0, and the other three
\* columns are the fold's values unchanged.
C5_ScoreTable ==
    bpc = "returned" =>
        /\ results.columns = <<"MAE", "r2", "fit_time", "score_time">>
        /\ Len(results.MAE) = 10 /\ Len(results.r2) = 10
        /\ Len(results.fit_time) = 10 /\ Len(results.score_time) = 10
        /\ \A i \in 1..10 :
              /\ results.MAE[i] = 0 - scores.test_neg_mean_absolute_error[i]
              /\ results.MAE[i] >= 0
              /\ results.r2[i] = scores.test_r2[i]
              /\ results.fit_time[i] = scores.fit_time[i]
              /\ results.score_time[i] = scores.score_time[i]

\* C5 witness: a table was returned in which one fold has error 3 and
\* another error 0.
C5_Witness ==
    /\ bpc = "returned"
    /\ \E i, j \in 1..10 : results.MAE[i] = 3 /\ results.MAE[j] = 0 /\ results.r2[i] = -2 /\ results.r2[j] = 1

\* the subjects the log marks OK, in log order, and the age participants.tsv
\* gives a subject
OkSubjects == SelectSeq(fs.log, LAMBDA row : row.ok = "OK")

AgeInParticipants(s) == (CHOOSE row \in Range(fs.participants) : row.participant_id = s).age

\* C6: whenever load_benchmark_data returns, X and y have the same length and
\* one entry per subject in the same order: for 'dummy' the subjects are all
\* rows of participants.tsv; for every other benchmark they are the subjects
\* of the log rows with ok == "OK", in log order.
C6_OneEntryPerSubject ==
    (LoadEnded /\ loaded.exc = None) =>
        /\ Len(loaded.X) = Len(loaded.y)
        /\ bBenchmark = "dummy" =>
              /\ Len(loaded.y) = Len(fs.participants)
              /\ \A i \in DOMAIN loaded.y : loaded.y[i] = fs.participants[i].age
        /\ bBenchmark # "dummy" =>
              /\ Len(loaded.X) = Len(OkSubjects)
              /\ \A i \in DOMAIN loaded.X :
                    /\ loaded.X[i].subject = OkSubjects[i].subject
                    /\ loaded.y[i] = AgeInParticipants(OkSubjects[i].subject)

\* C6 witness: a feature benchmark returned for a log that marks its first
\* row as failed and two later rows OK, the two in the reverse of their
\* order in participants.tsv.
C6_Witness ==
    /\ LoadEnded /\ loaded.exc = None /\ bBenchmark \in {"filterbank-riemann", "handcrafted"}
    /\ Len(fs.log) >= 2 /\ Len(loaded.X) >= 1 /\ Len(loaded.X) < Len(fs.log)
    /\ Len(fs.participants) >= 2
    /\ loaded.y[1] # fs.participants[1].age

(***************************************************************************)
(* Properties of X_y_model.py (SpecDeep)                                   *)
(***************************************************************************)
ValidFold == 0 <= fold /\ fold < cv.n_splits

\* the examples of windows_ds at a list of 0-based indices
ExamplesAt(ids) == [j \in DOMAIN ids |-> windows_ds[ids[j] + 1]]

\* C8: for a valid fold, the returned train_set holds the examples at the
\* train indices of the fold-th split of cv.split over 0..len(windows_ds)-1,
\* the predefined validation split holds those at its validation indices, the
\* two are disjoint and cover windows_ds, and the second value returned is
\* None.
C8_FoldSplit ==
    (dpc = "returned" /\ ValidFold) =>
        LET split == KFoldSplit(cv, Len(windows_ds))[fold + 1]
        IN /\ ret.train_set = ExamplesAt(split.train)
           /\ ret.valid_set = ExamplesAt(split.test)
           /\ Range(split.train) \cap Range(split.test) = {}
           /\ Range(split.train) \cup Range(split.test) = 0..(Len(windows_ds) - 1)
           /\ Range(ret.train_set) \cap Range(ret.valid_set) = {}
           /\ Range(ret.train_set) \cup Range(ret.valid_set) = Range(windows_ds)
           /\ Len(ret.train_set) + Len(ret.valid_set) = Len(windows_ds)
           /\ ret.y = None

\* C8 witness: fold 1 of 3 was returned for at least four examples.
C8_Witness ==
    /\ dpc = "returned" /\ fold = 1 /\ cv.n_splits = 3 /\ Len(windows_ds) >= 4
    /\ Len(ret.valid_set) >= 1 /\ Len(ret.train_set) >= 2

\* C9: get_X_y_model builds the network with in_chans = the channel count of
\* the epochs files and input_window_samples = their window length.
C9_DimensionsInTheirRoles ==
    (entry = "get_X_y_model" /\ dpc = "returned") =>
        /\ ret.module.in_chans = fnames[1].chans
        /\ ret.module.input_window_samples = fnames[1].times

\* C10: a fold that is no split index of cv (negative, or >= the number of
\* splits) is not reported: whenever the splits can be made, the call returns
\* the train/validation sets of the last split, which are the sets the valid
\* fold n_splits - 1 yields; an error raised in such a call is one a valid
\* fold meets as well (bad files, bad model name, fewer examples than splits).
C10_InvalidFoldGivesLastSplit ==
    ~ValidFold =>
        /\ dpc = "returned" =>
              LET last == KFoldSplit(cv, Len(windows_ds))[cv.n_splits]
              IN /\ fold_i = cv.n_splits - 1
                 /\ ret.train_set = ExamplesAt(last.train)
                 /\ ret.valid_set = ExamplesAt(last.test)
        /\ dpc = "raised" =>
              \/ (entry = "get_X_y_model" /\ windows_ds = <<>> /\ dError = "AssertionError")
              \/ (model_name \notin {"shallow", "deep"} /\ dError = "AssertionError")
              \/ (Len(windows_ds) < cv.n_splits /\ dError = "ValueError")
        /\ dpc = "build" => fold_i = cv.n_splits - 1

\* C10 witness: a call with fold = -1 returned the last of three splits.
C10_Witness ==
    /\ dpc = "returned" /\ fold = -1 /\ cv.n_splits = 3 /\ fold_i = 2
    /\ Len(windows_ds) >= 3 /\ Len(ret.valid_set) >= 1

====
